---- MODULE Spec2Model ----
(***************************************************************************)
(* Model of the GoP warm-core pipeline core:                               *)
(*   gop_warm_core_desipipeline.py  compute_E_local, rho_prob,             *)
(*                                  rho_effective, inner_slope             *)
(*   gop_curvature/bell_curve_decoherence_kernel.py  gamma_bell_curve      *)
(*                                                                         *)
(* The functions are pure; a state is one call: the arguments it was made  *)
(* with and the outcome it ended in (a returned value or a raised error).  *)
(*                                                                         *)
(* Numbers.  A float is modelled exactly, not rounded:                     *)
(*   - a finite value is  a + q * e^k  with a, q, k rationals (pairs       *)
(*     <<n, d>>, d > 0, in lowest terms).  The code only ever forms        *)
(*     rationals, rational multiples of one exponential, and one sum of a  *)
(*     rational and such a multiple, so the form is closed under what the  *)
(*     code does.  e^k is irrational for every rational k # 0, so two      *)
(*     canonical forms are equal exactly when the reals are equal;         *)
(*   - the IEEE specials nan, +inf, -inf arise as numpy produces them      *)
(*     (division by zero warns and returns them, it does not raise).       *)
(* Rounding and overflow of finite values are outside the model.           *)
(***************************************************************************)
EXTENDS Integers, Sequences, FiniteSets, TLC

VARIABLES call, ret, pc

vars == <<call, ret, pc>>

\* ------------------------------------------------------------ bounds
\* longest density array handed to the energy / density functions
MaxLen == 2
\* longest (radius, density) profile handed to inner_slope
MaxSamples == 3

\* ------------------------------------------------------------ rationals
Abs(n) == IF n < 0 THEN -n ELSE n

RECURSIVE GCD(_, _)
GCD(a, b) == IF b = 0 THEN a ELSE GCD(b, a % b)

\* n/d in lowest terms with a positive denominator (d # 0)
Rat(n, d) ==
    LET g == GCD(Abs(n), Abs(d))
        s == IF d < 0 THEN -1 ELSE 1
    IN  <<(s * n) \div g, (s * d) \div g>>

R(n) == <<n, 1>>
RZero == <<0, 1>>
ROne == <<1, 1>>
RAdd(x, y) == Rat(x[1] * y[2] + y[1] * x[2], x[2] * y[2])
RNeg(x) == <<-x[1], x[2]>>
RSub(x, y) == RAdd(x, RNeg(y))
RMul(x, y) == Rat(x[1] * y[1], x[2] * y[2])
RQuot(x, y) == Rat(x[1] * y[2], x[2] * y[1])
RSign(x) == IF x[1] > 0 THEN 1 ELSE IF x[1] < 0 THEN -1 ELSE 0

\* ------------------------------------------------------------ floats
\* canonical finite value a + q * e^k
Fin(a, q, k) ==
    IF q = RZero THEN [kind |-> "fin", a |-> a, q |-> RZero, k |-> RZero]
    ELSE IF k = RZero THEN [kind |-> "fin", a |-> RAdd(a, q), q |-> RZero, k |-> RZero]
    ELSE [kind |-> "fin", a |-> a, q |-> q, k |-> k]

F(r) == Fin(r, RZero, RZero)
Special(s) == [kind |-> s, a |-> RZero, q |-> RZero, k |-> RZero]
NaN == Special("nan")
PInf == Special("pinf")
NInf == Special("ninf")
FZero == F(RZero)

IsFin(x) == x.kind = "fin"
IsRat(x) == x.kind = "fin" /\ x.q = RZero

\* sign of a float: 2 stands for nan.  A finite value whose rational part and
\* exponential part have opposite signs is never formed by the code.
FSign(x) ==
    CASE x.kind = "nan" -> 2
      [] x.kind = "pinf" -> 1
      [] x.kind = "ninf" -> -1
      [] x.kind = "fin" /\ x.q = RZero -> RSign(x.a)
      [] x.kind = "fin" /\ x.q # RZero /\ x.a = RZero -> RSign(x.q)
      [] x.kind = "fin" /\ x.q # RZero /\ RSign(x.a) = RSign(x.q) -> RSign(x.q)

InfOfSign(s) == IF s > 0 THEN PInf ELSE NInf

\* IEEE product.  Two finite factors: a rational times any value, or two pure
\* exponentials.
FMul(x, y) ==
    CASE x.kind = "nan" \/ y.kind = "nan" -> NaN
      [] x.kind # "nan" /\ y.kind # "nan" /\ (~IsFin(x) \/ ~IsFin(y)) ->
            IF FSign(x) = 0 \/ FSign(y) = 0 THEN NaN
            ELSE InfOfSign(FSign(x) * FSign(y))
      [] IsFin(x) /\ IsFin(y) /\ x.q = RZero ->
            Fin(RMul(x.a, y.a), RMul(x.a, y.q), y.k)
      [] IsFin(x) /\ IsFin(y) /\ x.q # RZero /\ y.q = RZero ->
            Fin(RMul(x.a, y.a), RMul(x.q, y.a), x.k)
      [] IsFin(x) /\ IsFin(y) /\ x.q # RZero /\ y.q # RZero
                  /\ x.a = RZero /\ y.a = RZero ->
            Fin(RZero, RMul(x.q, y.q), RAdd(x.k, y.k))

\* IEEE quotient by a rational or a special (the code never divides by an
\* exponential): x / 0 is nan for x = 0 or nan, otherwise an infinity.
FDiv(x, y) ==
    CASE x.kind = "nan" \/ y.kind = "nan" -> NaN
      [] x.kind # "nan" /\ y.kind # "nan" /\ ~IsFin(x) /\ ~IsFin(y) -> NaN
      [] x.kind # "nan" /\ ~IsFin(x) /\ IsFin(y) ->
            InfOfSign(FSign(x) * (IF FSign(y) < 0 THEN -1 ELSE 1))
      [] IsFin(x) /\ y.kind # "nan" /\ ~IsFin(y) -> FZero
      [] IsFin(x) /\ IsRat(y) /\ y.a = RZero ->
            IF FSign(x) = 0 THEN NaN ELSE InfOfSign(FSign(x))
      [] IsFin(x) /\ IsRat(y) /\ y.a # RZero ->
            Fin(RQuot(x.a, y.a), RQuot(x.q, y.a), x.k)

\* IEEE sum; two finite terms: at least one is a rational
FAdd(x, y) ==
    CASE x.kind = "nan" \/ y.kind = "nan" -> NaN
      [] x.kind # "nan" /\ y.kind # "nan" /\ ~IsFin(x) /\ ~IsFin(y) ->
            IF x.kind = y.kind THEN x ELSE NaN
      [] x.kind # "nan" /\ ~IsFin(x) /\ IsFin(y) -> x
      [] IsFin(x) /\ y.kind # "nan" /\ ~IsFin(y) -> y
      [] IsFin(x) /\ IsFin(y) /\ x.q = RZero -> Fin(RAdd(x.a, y.a), y.q, y.k)
      [] IsFin(x) /\ IsFin(y) /\ x.q # RZero /\ y.q = RZero ->
            Fin(RAdd(x.a, y.a), x.q, x.k)

FNeg(x) ==
    CASE x.kind = "nan" -> NaN
      [] x.kind = "pinf" -> NInf
      [] x.kind = "ninf" -> PInf
      [] x.kind = "fin" -> Fin(RNeg(x.a), RNeg(x.q), x.k)

\* np.exp of a rational or a special: e^0 = 1, e^(+inf) = +inf, e^(-inf) = 0
FExp(x) ==
    CASE x.kind = "nan" -> NaN
      [] x.kind = "pinf" -> PInf
      [] x.kind = "ninf" -> FZero
      [] IsRat(x) -> Fin(RZero, ROne, x.a)

\* x ** 3 (float(Lcoh_cm) ** 3)
FCube(x) == FMul(FMul(x, x), x)

\* elementwise array operations (numpy broadcasting of a scalar)
ADivS(xs, s) == [i \in 1..Len(xs) |-> FDiv(xs[i], s)]
AMulS(xs, s) == [i \in 1..Len(xs) |-> FMul(xs[i], s)]
SMulA(s, xs) == [i \in 1..Len(xs) |-> FMul(s, xs[i])]
AAddA(xs, ys) == [i \in 1..Len(xs) |-> FAdd(xs[i], ys[i])]

\* ------------------------------------------------------------ strings
\* a Python str is a sequence of one-character strings
Upper == <<"A","B","C","D","E","F","G","H","I","J","K","L","M",
           "N","O","P","Q","R","S","T","U","V","W","X","Y","Z">>
Lower == <<"a","b","c","d","e","f","g","h","i","j","k","l","m",
           "n","o","p","q","r","s","t","u","v","w","x","y","z">>
Whitespace == {" ", "\t", "\n"}

\* the lower-case letter of each upper-case one
LowerOf == [c \in {Upper[i] : i \in 1..Len(Upper)} |->
               Lower[CHOOSE i \in 1..Len(Upper) : Upper[i] = c]]

LowerChar(c) == IF c \in DOMAIN LowerOf THEN LowerOf[c] ELSE c

\* str.lower()
StrLower(s) == [i \in 1..Len(s) |-> LowerChar(s[i])]

\* str.strip(): drop the leading and the trailing whitespace
StrStrip(s) ==
    LET keep == {i \in 1..Len(s) : s[i] \notin Whitespace}
    IN  IF keep = {} THEN <<>>
        ELSE LET lo == CHOOSE i \in keep : \A j \in keep : i <= j
                 hi == CHOOSE i \in keep : \A j \in keep : j <= i
             IN  SubSeq(s, lo, hi)

STR_normalized == <<"n","o","r","m","a","l","i","z","e","d">>
STR_physical == <<"p","h","y","s","i","c","a","l">>

\* ------------------------------------------------------------ constants
\* speed of light, in units in which it is a small integer
C_LIGHT == 3

\* ------------------------------------------------------------ outcomes
Returned(v) == [kind |-> "array", val |-> v, printed |-> FALSE]
Raised(e) == [kind |-> e, val |-> <<>>, printed |-> FALSE]
NoRet == [kind |-> "none", val |-> <<>>, printed |-> FALSE]
NoRef == [kind |-> "None", a |-> RZero, q |-> RZero, k |-> RZero]

\* ------------------------------------------------------------ compute_E_local
\* faulty variant: the mode is lower-cased but not trimmed
NormMode_nostrip(mode) == StrLower(mode)

\* mode = mode.lower().strip()
NormMode(mode) == StrStrip(StrLower(mode))

\* faulty variant: a supplied reference of 0 falls through to density[0]
RefUsed_fallthrough(xs, rho_ref) ==
    IF rho_ref # NoRef /\ rho_ref # FZero THEN rho_ref
    ELSE IF Len(xs) > 0 /\ xs[1] # FZero THEN xs[1]
    ELSE F(ROne)

\* faulty variant: the supplied reference is ignored, density[0] is always used
RefUsed_first(xs, rho_ref) ==
    IF Len(xs) > 0 /\ xs[1] # FZero THEN xs[1] ELSE F(ROne)

\* the reference density the normalized branch divides by (rho_b non-empty
\* whenever rho_ref is None)
RefUsed(xs, rho_ref) ==
    LET r1 == IF rho_ref = NoRef
              THEN (IF xs[1] # FZero THEN xs[1] ELSE F(ROne))
              ELSE rho_ref
    IN  IF r1 # FZero THEN r1 ELSE F(ROne)

\* rho_b is [conv |-> np.asarray(rho_b, dtype=float) succeeds, xs |-> the array]
compute_E_local(rho_b, params, mode, rho_ref, Lcoh_cm) ==
    LET m == NormMode(mode) IN
    IF ~rho_b.conv THEN Raised("conversion_error")
    ELSE IF m = STR_normalized THEN
        IF rho_ref = NoRef /\ Len(rho_b.xs) = 0 THEN Raised("IndexError")
        ELSE Returned(SMulA(params.E0_erg, ADivS(rho_b.xs, RefUsed(rho_b.xs, rho_ref))))
    ELSE IF m = STR_physical THEN
        LET V_coh == FCube(Lcoh_cm)
        IN  Returned(AMulS(AMulS(rho_b.xs, F(R(C_LIGHT * C_LIGHT))), V_coh))
    ELSE Raised("invalid_mode")

\* ------------------------------------------------------------ inputs
DensVals == {FZero, F(ROne), F(R(2))}

RECURSIVE SeqsUpTo(_, _)
SeqsUpTo(S, n) ==
    IF n = 0 THEN {<<>>}
    ELSE LET prev == SeqsUpTo(S, n - 1)
         IN  prev \cup {Append(s, x) : s \in {t \in prev : Len(t) = n - 1}, x \in S}

\* density arguments: every array up to MaxLen, and one that np.asarray cannot
\* convert to floats
DensityInputs ==
    {[conv |-> TRUE, xs |-> s] : s \in SeqsUpTo(DensVals, MaxLen)}
      \cup {[conv |-> FALSE, xs |-> <<>>]}

ModeInputs ==
    { STR_normalized,
      <<" ","N","o","r","m","a","l","i","z","e","d","\n">>,
      STR_physical,
      <<"P","H","Y","S","I","C","A","L"," ">>,
      <<"b","o","g","u","s">>,
      <<"n","o","r","m"," ","a","l","i","z","e","d">> }

RefInputs == {NoRef, F(R(-1)), FZero, F(R(2))}
LcohInputs == {F(R(-1)), FZero, F(R(2))}
E0Inputs == {F(R(-1)), FZero, F(ROne), F(R(2))}

KappaInputs == {F(R(-1)), FZero, F(R(2))}
FentInputs == {F(R(-1)), F(ROne)}
AcpInputs == {F(R(-2)), F(Rat(1, 2))}
EnergyVals == {F(R(-1)), FZero, F(ROne), F(R(2))}

\* GoPParams: a frozen dataclass of four floats, no validation
ParamInputs ==
    {[kappaA |-> ka, E0_erg |-> e, f_ent |-> fe, a_cp |-> ac] :
        ka \in KappaInputs, e \in E0Inputs, fe \in FentInputs, ac \in AcpInputs}

\* the parameters compute_E_local reads: E0_erg alone varies
ParamsE0 == {p \in ParamInputs : p.kappaA = F(R(2)) /\ p.f_ent = F(ROne) /\ p.a_cp = F(Rat(1, 2))}

\* ------------------------------------------------------------ gamma_bell_curve
\* faulty variant: Gamma = A * E * exp(1 - E/E0)
GammaElem_shifted(E, A, E0_local) ==
    LET x == FDiv(E, E0_local)
    IN  FMul(FMul(A, E), FExp(FAdd(F(ROne), FNeg(x))))

\* x = E / E0_local ; gamma = A * x * exp(-x), one element
GammaElem(E, A, E0_local) ==
    LET x == FDiv(E, E0_local)
    IN  FMul(FMul(A, x), FExp(FNeg(x)))

gamma_bell_curve(E, A, E0_local) ==
    [i \in 1..Len(E) |-> GammaElem(E[i], A, E0_local)]

\* ------------------------------------------------------------ rho_prob
\* r_kpc is unused by the code and left out.  With debug the diagnostic block
\* runs between the computation of rho_p and its return: np.max / np.min of an
\* empty array raise ValueError, everything else in it only prints.
rho_prob(rho_b, params, mode, rho_ref, Lcoh_cm, debug) ==
    LET e == compute_E_local(rho_b, params, mode, rho_ref, Lcoh_cm) IN
    IF e.kind # "array" THEN e
    ELSE LET Gamma == gamma_bell_curve(e.val, params.kappaA, params.E0_erg)
             rho_p == AMulS(AMulS(Gamma, params.f_ent), FAdd(F(ROne), params.a_cp))
         IN  IF ~debug THEN Returned(rho_p)
             ELSE IF Len(e.val) = 0 THEN Raised("reduction_error")
             ELSE [kind |-> "array", val |-> rho_p, printed |-> TRUE]

\* ------------------------------------------------------------ rho_effective
\* faulty variant: the probabilistic term is subtracted
rho_effective_minus(rho_b, params, mode, rho_ref, Lcoh_cm, debug) ==
    LET p == rho_prob(rho_b, params, mode, rho_ref, Lcoh_cm, debug) IN
    IF p.kind # "array" THEN p
    ELSE [kind |-> "array", val |-> AAddA(rho_b.xs, [i \in 1..Len(p.val) |-> FNeg(p.val[i])]),
          printed |-> p.printed]

rho_effective(rho_b, params, mode, rho_ref, Lcoh_cm, debug) ==
    LET p == rho_prob(rho_b, params, mode, rho_ref, Lcoh_cm, debug) IN
    IF p.kind # "array" THEN p
    ELSE [kind |-> "array", val |-> AAddA(rho_b.xs, p.val), printed |-> p.printed]

\* ------------------------------------------------------------ inner_slope
\* Radii and densities handed to inner_slope are s * 2^e (s the sign, e an
\* integer), so that np.log is exact: log(2^e) = e * ln 2.  The fitted slope is
\* a ratio of two quantities each carrying (ln 2)^2, so logs are kept in units
\* of ln 2.
LPos(e) == [s |-> 1, e |-> e]
LNeg(e) == [s |-> -1, e |-> e]
LZero == [s |-> 0, e |-> 0]

\* x > 0
LGtZero(x) == x.s = 1

\* x <= y
LLe(x, y) ==
    IF x.s # y.s THEN x.s < y.s
    ELSE IF x.s = 0 THEN TRUE
    ELSE IF x.s = 1 THEN x.e <= y.e
    ELSE y.e <= x.e

\* np.log of a positive value, in units of ln 2
LLog(x) == x.e

\* fewest samples a fit is attempted on
MinFitSamples == 3

RECURSIVE SumOver(_, _)
SumOver(f, S) ==
    IF S = {} THEN 0
    ELSE LET i == CHOOSE j \in S : TRUE IN f[i] + SumOver(f, S \ {i})

\* faulty variant: a fit through the origin (no intercept)
PolyfitSlope_origin(x, y, S) ==
    LET Sxy == SumOver([i \in S |-> x[i] * y[i]], S)
        Sxx == SumOver([i \in S |-> x[i] * x[i]], S)
    IN  IF Sxx = 0 THEN [kind |-> "rank_deficient", val |-> <<>>, printed |-> FALSE]
        ELSE [kind |-> "float", val |-> Rat(Sxy, Sxx), printed |-> FALSE]

\* np.polyfit(x, y, 1)[0]: the least-squares slope of y on x over the index
\* set S.  With fewer than two distinct x the system is rank deficient (numpy
\* warns and returns a minimum-norm solution, which is not modelled).
PolyfitSlope(x, y, S) ==
    LET n == Cardinality(S)
        Sx == SumOver(x, S)
        Sy == SumOver(y, S)
        Sxy == SumOver([i \in S |-> x[i] * y[i]], S)
        Sxx == SumOver([i \in S |-> x[i] * x[i]], S)
        den == n * Sxx - Sx * Sx
    IN  IF den = 0 THEN [kind |-> "rank_deficient", val |-> <<>>, printed |-> FALSE]
        ELSE [kind |-> "float", val |-> Rat(n * Sxy - Sx * Sy, den), printed |-> FALSE]

\* faulty variant: the window's upper end r_max is not applied
SlopeMask_noWindow(r_kpc, rho, r_max) ==
    {i \in 1..Len(r_kpc) : LGtZero(r_kpc[i]) /\ LGtZero(rho[i])}

\* mask = (r_kpc > 0) & (r_kpc <= r_max) & (rho > 0)
SlopeMask(r_kpc, rho, r_max) ==
    {i \in 1..Len(r_kpc) : LGtZero(r_kpc[i]) /\ LLe(r_kpc[i], r_max) /\ LGtZero(rho[i])}

inner_slope(r_kpc, rho, r_max) ==
    LET mask == SlopeMask(r_kpc, rho, r_max) IN
    IF Cardinality(mask) < MinFitSamples
    THEN [kind |-> "nan", val |-> <<>>, printed |-> FALSE]
    ELSE LET x == [i \in mask |-> LLog(r_kpc[i])]
             y == [i \in mask |-> LLog(rho[i])]
         IN  PolyfitSlope(x, y, mask)

\* radii a profile is built from, ascending (a RadialProfile has increasing radii)
RadList == <<LZero, LPos(-4), LPos(-2), LPos(0), LPos(2)>>

RECURSIVE SortedPick(_)
SortedPick(S) ==
    IF S = {} THEN <<>>
    ELSE LET m == CHOOSE i \in S : \A j \in S : j <= i
         IN  Append(SortedPick(S \ {m}), RadList[m])

RadSeqs ==
    {SortedPick(S) : S \in {T \in SUBSET (1..Len(RadList)) : Cardinality(T) <= MaxSamples}}

SlopeDensVals == {LNeg(0), LZero, LPos(-2), LPos(-1), LPos(0), LPos(1), LPos(2)}

ProfileInputs ==
    UNION {{[r |-> rs, rho |-> ds] : ds \in [1..Len(rs) -> SlopeDensVals]} : rs \in RadSeqs}

RMaxInputs == {LPos(-2), LPos(0), LPos(2)}

\* ------------------------------------------------------------ state machine
\* the driver is about to call one of the core functions
Functions == {"compute_E_local", "gamma_bell_curve", "rho_prob", "rho_effective",
              "inner_slope"}

Init ==
    /\ pc \in Functions
    /\ call = [fn |-> "none"]
    /\ ret = NoRet

Call_compute_E_local ==
    /\ pc = "compute_E_local"
    /\ \E rho_b \in DensityInputs, params \in ParamsE0, mode \in ModeInputs,
          rho_ref \in RefInputs, Lcoh_cm \in LcohInputs :
          /\ call' = [fn |-> "compute_E_local", rho_b |-> rho_b, params |-> params,
                      mode |-> mode, rho_ref |-> rho_ref, Lcoh_cm |-> Lcoh_cm]
          /\ ret' = compute_E_local(rho_b, params, mode, rho_ref, Lcoh_cm)
    /\ pc' = "done"

Call_gamma_bell_curve ==
    /\ pc = "gamma_bell_curve"
    /\ \E E \in SeqsUpTo(EnergyVals, MaxLen), A \in KappaInputs, E0_local \in E0Inputs :
          /\ call' = [fn |-> "gamma_bell_curve", E |-> E, A |-> A, E0_local |-> E0_local]
          /\ ret' = Returned(gamma_bell_curve(E, A, E0_local))
    /\ pc' = "done"

Call_rho_prob ==
    /\ pc = "rho_prob"
    /\ \E rho_b \in DensityInputs, params \in ParamInputs, mode \in ModeInputs,
          rho_ref \in RefInputs, Lcoh_cm \in LcohInputs, debug \in BOOLEAN :
          /\ call' = [fn |-> "rho_prob", rho_b |-> rho_b, params |-> params,
                      mode |-> mode, rho_ref |-> rho_ref, Lcoh_cm |-> Lcoh_cm,
                      debug |-> debug]
          /\ ret' = rho_prob(rho_b, params, mode, rho_ref, Lcoh_cm, debug)
    /\ pc' = "done"

Call_rho_effective ==
    /\ pc = "rho_effective"
    /\ \E rho_b \in DensityInputs, params \in ParamInputs, mode \in ModeInputs,
          rho_ref \in RefInputs, Lcoh_cm \in LcohInputs, debug \in BOOLEAN :
          /\ call' = [fn |-> "rho_effective", rho_b |-> rho_b, params |-> params,
                      mode |-> mode, rho_ref |-> rho_ref, Lcoh_cm |-> Lcoh_cm,
                      debug |-> debug]
          /\ ret' = rho_effective(rho_b, params, mode, rho_ref, Lcoh_cm, debug)
    /\ pc' = "done"

Call_inner_slope ==
    /\ pc = "inner_slope"
    /\ \E prof \in ProfileInputs, r_max \in RMaxInputs :
          /\ call' = [fn |-> "inner_slope", r_kpc |-> prof.r, rho |-> prof.rho,
                      r_max |-> r_max]
          /\ ret' = inner_slope(prof.r, prof.rho, r_max)
    /\ pc' = "done"

Next ==
    \/ Call_compute_E_local
    \/ Call_gamma_bell_curve
    \/ Call_rho_prob
    \/ Call_rho_effective
    \/ Call_inner_slope

Spec == Init /\ [][Next]_vars

\* ------------------------------------------------------------ properties
Done(f) == pc = "done" /\ call.fn = f

EnergyFns == {"compute_E_local", "rho_prob", "rho_effective"}

\* the spellings among ModeInputs that lower-case and trim to each mode name
NormalizedSpellings ==
    {STR_normalized, <<" ","N","o","r","m","a","l","i","z","e","d","\n">>}
PhysicalSpellings ==
    {STR_physical, <<"P","H","Y","S","I","C","A","L"," ">>}
OtherSpellings ==
    {<<"b","o","g","u","s">>, <<"n","o","r","m"," ","a","l","i","z","e","d">>}

AllPositive(xs) == \A i \in 1..Len(xs) : FSign(xs[i]) = 1

\* v >= w, for v - w a rational or a multiple of one exponential
FGeq(v, w) == FSign(FAdd(v, FNeg(w))) \in {0, 1}

\* C1: for every mode that lower-cases and trims to neither "normalized" nor
\* "physical", compute_E_local ends in the invalid-mode error whatever the
\* density argument is, an unconvertible one included.
C1_InvalidModeBeforeArrayWork ==
    (Done("compute_E_local") /\ call.mode \in OtherSpellings)
        => ret.kind = "invalid_mode"

ClaimedRef(xs, rho_ref) ==
    IF rho_ref # NoRef /\ rho_ref # FZero THEN rho_ref
    ELSE IF xs[1] # FZero THEN xs[1]
    ELSE F(ROne)

\* the reference of the amended order: a supplied one if nonzero and 1.0 if
\* zero; with none supplied, density[0] if nonzero, else 1.0
AmendedRef(xs, rho_ref) ==
    IF rho_ref # NoRef THEN (IF rho_ref # FZero THEN rho_ref ELSE F(ROne))
    ELSE IF xs[1] # FZero THEN xs[1]
    ELSE F(ROne)

NormalizedOutput(E0, xs, ref) == [i \in 1..Len(xs) |-> FMul(E0, FDiv(xs[i], ref))]

\* C3 (as claimed): in normalized mode the output is E0 * (density / reference)
\* with the reference chosen in the claimed fallback order.
C3_ClaimedFallbackOrder ==
    (/\ Done("compute_E_local")
     /\ call.mode \in NormalizedSpellings
     /\ call.rho_b.conv
     /\ Len(call.rho_b.xs) > 0)
        => /\ ret.kind = "array"
           /\ ret.val = NormalizedOutput(call.params.E0_erg, call.rho_b.xs,
                                         ClaimedRef(call.rho_b.xs, call.rho_ref))

\* C3 (amended): in normalized mode the output is E0 * (density / reference)
\* where a supplied reference is used if nonzero and replaced by 1.0 if zero,
\* and without a supplied reference density[0] is used if nonzero, else 1.0;
\* an empty density without a supplied reference raises IndexError.
C3_AmendedFallbackOrder ==
    (/\ Done("compute_E_local")
     /\ call.mode \in NormalizedSpellings
     /\ call.rho_b.conv)
        => IF Len(call.rho_b.xs) = 0 /\ call.rho_ref = NoRef
           THEN ret.kind = "IndexError"
           ELSE /\ ret.kind = "array"
                /\ ret.val = NormalizedOutput(call.params.E0_erg, call.rho_b.xs,
                                              AmendedRef(call.rho_b.xs, call.rho_ref))

C3_Witness ==
    /\ Done("compute_E_local")
    /\ call.mode \in NormalizedSpellings
    /\ call.rho_ref = FZero
    /\ call.rho_b.conv
    /\ Len(call.rho_b.xs) = 2
    /\ call.rho_b.xs[1] = F(R(2))
    /\ call.params.E0_erg = F(ROne)
    /\ ret.kind = "array"
    /\ ret.val = call.rho_b.xs

\* C4: a zero E0 (kernel, normalized mapping) or a non-positive coherence
\* length in physical mode never ends in a returned array (a DomainError is
\* raised instead).  Stated for non-empty, convertible arrays.
C4_DomainErrorNoArray ==
    /\ (Done("gamma_bell_curve") /\ call.E0_local = FZero /\ Len(call.E) > 0)
          => ret.kind # "array"
    /\ (/\ pc = "done" /\ call.fn \in EnergyFns
        /\ call.rho_b.conv /\ Len(call.rho_b.xs) > 0
        /\ \/ call.mode \in NormalizedSpellings /\ call.params.E0_erg = FZero
           \/ call.mode \in PhysicalSpellings /\ FSign(call.Lcoh_cm) \in {-1, 0}
           \/ call.fn # "compute_E_local" /\ call.mode \in PhysicalSpellings
                 /\ call.params.E0_erg = FZero)
          => ret.kind # "array"

\* the samples the claim counts as qualifying
Qualifying ==
    {i \in 1..Len(call.r_kpc) :
        /\ call.r_kpc[i].s = 1
        /\ LLe(call.r_kpc[i], call.r_max)
        /\ call.rho[i].s = 1}

\* C5: inner_slope returns the undefined sentinel (NaN), raising nothing and
\* fitting nothing, exactly when fewer than 3 samples have 0 < radius <= r_max
\* and density > 0; with 3 or more it returns a fitted number.
C5_UndefinedBelowThreeSamples ==
    Done("inner_slope") =>
        IF Cardinality(Qualifying) < 3 THEN ret.kind = "nan" ELSE ret.kind = "float"

C5_Witness ==
    /\ Done("inner_slope")
    /\ Len(call.r_kpc) = 3
    /\ Cardinality({i \in 1..3 : call.r_kpc[i].s = 1 /\ LLe(call.r_kpc[i], call.r_max)}) = 3
    /\ Cardinality(Qualifying) = 2
    /\ ret.kind = "nan"

\* C6 (as claimed): in normalized mode with reference = density[i], the output
\* at index i is exactly E0, for every density array and every index i.
C6_IdentityAtEveryIndex ==
    (/\ Done("compute_E_local")
     /\ call.mode \in NormalizedSpellings
     /\ call.rho_b.conv)
        => \A i \in 1..Len(call.rho_b.xs) :
              call.rho_ref = call.rho_b.xs[i]
                  => (ret.kind = "array" /\ ret.val[i] = call.params.E0_erg)

\* C6 (amended): the same for every index i whose density[i] is nonzero.
C6_IdentityAtNonzeroIndex ==
    (/\ Done("compute_E_local")
     /\ call.mode \in NormalizedSpellings
     /\ call.rho_b.conv)
        => \A i \in 1..Len(call.rho_b.xs) :
              (call.rho_ref = call.rho_b.xs[i] /\ call.rho_b.xs[i] # FZero)
                  => (ret.kind = "array" /\ ret.val[i] = call.params.E0_erg)

C6_Witness ==
    /\ Done("compute_E_local")
    /\ call.mode \in NormalizedSpellings
    /\ call.rho_b.conv
    /\ Len(call.rho_b.xs) = 2
    /\ call.rho_b.xs[1] = F(ROne)
    /\ call.rho_b.xs[2] = F(R(2))
    /\ call.rho_ref = F(R(2))
    /\ call.params.E0_erg = F(R(2))
    /\ ret.val = <<F(ROne), F(R(2))>>

\* the claim's case; E0 > 0 is the invariant of the parameters record
C7_Premise ==
    /\ Done("rho_effective")
    /\ FSign(call.params.E0_erg) = 1
    /\ call.mode \in NormalizedSpellings
    /\ call.rho_b.conv
    /\ AllPositive(call.rho_b.xs)
    /\ FSign(call.params.kappaA) \in {0, 1}
    /\ FSign(call.params.f_ent) \in {0, 1}
    /\ FSign(FAdd(F(ROne), call.params.a_cp)) \in {0, 1}
    /\ ret.kind = "array"

OnPowerLaw(m) ==
    \A i, j \in Qualifying :
        RSub(R(call.rho[i].e), R(call.rho[j].e))
            = RMul(m, RSub(R(call.r_kpc[i].e), R(call.r_kpc[j].e)))

SlopeCandidates == {Rat(n, 2) : n \in -4..4}

\* C8: when at least 3 samples qualify and they lie on an exact power law
\* density = C * radius^m, inner_slope returns m.
C8_PowerLawSlope ==
    Done("inner_slope") =>
        \A m \in SlopeCandidates :
            (Cardinality(Qualifying) >= 3 /\ OnPowerLaw(m))
                => (ret.kind = "float" /\ ret.val = m)

C8_Witness ==
    /\ Done("inner_slope")
    /\ Cardinality(Qualifying) = 3
    /\ Len(call.r_kpc) = 3
    /\ call.rho[1] # call.rho[2]
    /\ OnPowerLaw(Rat(-1, 2))
    /\ ret.kind = "float"
    /\ ret.val = Rat(-1, 2)

====
